---- MODULE Spec2Model ----
(***************************************************************************)
(* Order Management core of src/OMS/binance_oms.py (class Binance).        *)
(*                                                                         *)
(* One action per public method; an action is the whole method call, the   *)
(* gateway's answers (python-binance Client) being inputs of the action.   *)
(* Python floats are modelled as exact rationals <<n, d>>; the inputs are   *)
(* values on which the float arithmetic of the source gives the same.      *)
(***************************************************************************)
EXTENDS Integers, Sequences, FiniteSets, TLC

(***************************************************************************)
(* Bounds of the model.                                                    *)
(***************************************************************************)
\* Order requests submitted over the life of one instance.
MaxSubmit == 3
\* The same, where every method that submits orders may be called.
MaxMixed == 2
\* The same, where every method may be called.
MaxAll == 1

(***************************************************************************)
(* Rationals: <<n, d>> with d > 0 and gcd(n, d) = 1.                       *)
(***************************************************************************)
Abs(n) == IF n < 0 THEN -n ELSE n

RECURSIVE Gcd(_, _)
Gcd(a, b) == IF b = 0 THEN a ELSE Gcd(b, a % b)

R(n, d) ==
    LET s == IF d < 0 THEN -1 ELSE 1
        g == Gcd(Abs(n), Abs(d))
    IN  <<(s * n) \div g, (s * d) \div g>>

RMul(a, b) == R(a[1] * b[1], a[2] * b[2])
RDiv(a, b) == R(a[1] * b[2], a[2] * b[1])
RSub(a, b) == R(a[1] * b[2] - b[1] * a[2], a[2] * b[2])
RAbs(a) == <<Abs(a[1]), a[2]>>
RLt(a, b) == a[1] * b[2] < b[1] * a[2]
RLe(a, b) == a[1] * b[2] <= b[1] * a[2]
RMin(a, b) == IF RLe(a, b) THEN a ELSE b
RSign(a) == IF a[1] > 0 THEN 1 ELSE IF a[1] < 0 THEN -1 ELSE 0
Zero == <<0, 1>>

(***************************************************************************)
(* Python values.                                                          *)
(***************************************************************************)
None == <<"None">>
\* bool(x) of an optional float: None and 0.0 are falsy.
Truthy(x) == x # None /\ x[1] # 0

\* str.upper() on the strings the model uses.
Upper(s) ==
    CASE s = "btcusdt" -> "BTCUSDT"
      [] s = "ethusdt" -> "ETHUSDT"
      [] s = "adausdt" -> "ADAUSDT"
      [] s = "buy" -> "BUY"
      [] s = "sell" -> "SELL"
      [] s = "market" -> "MARKET"
      [] s = "limit" -> "LIMIT"
      [] s = "usd" -> "USD"
      [] s = "contracts" -> "CONTRACTS"
      [] OTHER -> s

\* A DataFrame cell: <<"int", n>> or <<"float", n, d>>; float(cell).
Float(c) == IF c[1] = "int" THEN R(c[2], 1) ELSE R(c[2], c[3])

(***************************************************************************)
(* BinanceAPIException texts (str(e)), as word sequences.                  *)
(***************************************************************************)
ErrMinNotional ==
    <<"APIError(code=-4164):", "Order's", "notional", "must", "be", "no",
      "smaller", "than", "5", ".0", "(unless", "you", "choose", "reduce", "only)">>
ErrMargin == <<"APIError(code=-2019):", "Margin", "is", "insufficient.">>
ErrReduceOnly == <<"APIError(code=-2022):", "ReduceOnly", "Order", "is", "rejected.">>
ErrTooManyRequests == <<"APIError(code=-1003):", "Too", "many", "requests.">>
ApiErrors == {ErrMinNotional, ErrMargin, ErrReduceOnly, ErrTooManyRequests}

\* needle in text (Python's substring test), on word sequences.
Contains(text, needle) ==
    \E i \in 0..(Len(text) - Len(needle)) :
        \A k \in 1..Len(needle) : text[i + k] = needle[k]

(***************************************************************************)
(* PrecisionResolver arithmetic of place_futures_order.                    *)
(***************************************************************************)
\* floor(a / b) for b # 0 (Python's // on floats), as a rational.
FloorDiv(a, b) ==
    LET q == RDiv(a, b)
    IN  R(IF q[1] >= 0 THEN q[1] \div q[2] ELSE -((-q[1] + q[2] - 1) \div q[2]), 1)

\* round(math.log10(s)) for s > 0: the integer nearest to log10(s).
RECURSIVE Log10Round(_)
Log10Round(s) ==
    IF RLe(<<10, 1>>, RMul(s, s)) THEN 1 + Log10Round(RDiv(s, <<10, 1>>))
    ELSE IF RLt(RMul(<<10, 1>>, RMul(s, s)), <<1, 1>>)
         THEN Log10Round(RMul(s, <<10, 1>>)) - 1
         ELSE 0

RECURSIVE Pow10(_)
Pow10(k) ==
    IF k = 0 THEN <<1, 1>>
    ELSE IF k > 0 THEN RMul(<<10, 1>>, Pow10(k - 1))
         ELSE RDiv(Pow10(k + 1), <<10, 1>>)

\* The integer nearest to x >= 0, ties to the even one (Python 3 round()).
RoundHalfEven(x) ==
    LET f == x[1] \div x[2]
        twice == 2 * (x[1] - f * x[2])
    IN  IF twice < x[2] THEN f
        ELSE IF twice > x[2] THEN f + 1
             ELSE IF f % 2 = 0 THEN f ELSE f + 1

\* round(x, ndigits) for x >= 0; ndigits may be negative.
PyRound(x, ndigits) ==
    RDiv(R(RoundHalfEven(RMul(x, Pow10(ndigits))), 1), Pow10(ndigits))

\* round(value // step * step, int(-1 * round(math.log10(step)))), step > 0.
RoundToStep(value, step) ==
    PyRound(RMul(FloorDiv(value, step), step), -1 * Log10Round(step))

(***************************************************************************)
(* The exchange, as the gateway reports it.                                *)
(***************************************************************************)
\* futures_exchange_info()['symbols']: stepSize (filters[2]), tickSize (filters[0]).
\* The filters are what the exchange reports: steps that are powers of ten,
\* steps that are not (1/2, 1/4, 5), and a step or a tick of zero.
ExchangeInfo ==
    <<[symbol |-> "BTCUSDT", stepSize |-> <<1, 1000>>, tickSize |-> <<1, 10>>],
      [symbol |-> "ETHUSDT", stepSize |-> <<1, 100>>, tickSize |-> <<1, 100>>],
      [symbol |-> "ADAUSDT", stepSize |-> <<1, 1>>, tickSize |-> <<1, 10000>>],
      [symbol |-> "XRPUSDT", stepSize |-> <<1, 2>>, tickSize |-> <<1, 4>>],
      [symbol |-> "SHIBUSDT", stepSize |-> <<5, 1>>, tickSize |-> <<1, 2>>],
      [symbol |-> "LUNAUSDT", stepSize |-> <<0, 1>>, tickSize |-> <<1, 10>>],
      [symbol |-> "FTTUSDT", stepSize |-> <<1, 1>>, tickSize |-> <<0, 1>>]>>

\* float(futures_mark_price(symbol=s)['markPrice']).
MarkPrice_unlisted == <<1, 1>>
MarkPrice(s) ==
    CASE Upper(s) = "BTCUSDT" -> <<50000, 1>>
      [] Upper(s) = "ETHUSDT" -> <<3000, 1>>
      [] Upper(s) = "ADAUSDT" -> <<2, 5>>
      [] OTHER -> MarkPrice_unlisted

\* A gateway answer: Ok, or the text of the BinanceAPIException it raises.
Ok == <<"OK">>
Answers == {Ok, ErrMargin}

\* The order dict the gateway returns for an accepted order.
Confirmation(id, params) ==
    [orderId |-> id, symbol |-> params.symbol, side |-> params.side,
     type |-> params.type, origQty |-> params.quantity]

\* A keyword argument that is not passed.
Absent == <<"absent">>

\* One gateway call: the operation, its arguments, the answer (Ok or the
\* exception's text) and the value returned (<<value>>, or <<>> on an exception).
Call(api, params, answer, result) ==
    [api |-> api, params |-> params, answer |-> answer, result |-> result]

(***************************************************************************)
(* State.                                                                  *)
(***************************************************************************)
VARIABLES
    successful_orders,  \* self.successful_orders
    failed_orders,      \* self.failed_orders
    positions,          \* the account's futures positions, held by the exchange
    orderSeq,           \* orders the exchange has accepted so far
    op,                 \* the last method called, with its arguments
    calls,              \* the gateway calls the last method made, in order
    sent,               \* the messages the last method gave to the Notifier
    ret,                \* what the last method returned (or raised)
    submitted,          \* order requests made so far
    telegram,           \* the Notifier's channel: "up" or "down"
    lost                \* the messages of the last method that were not delivered

vars == <<successful_orders, failed_orders, positions, orderSeq, op, calls,
          sent, ret, submitted, telegram, lost>>

(***************************************************************************)
(* The Notifier (OMS.telegram.Telegram).                                   *)
(***************************************************************************)
\* send_telegram_message(message) over a channel: TRUE when the message is
\* delivered. A failure is swallowed by the Notifier: the caller gets no
\* value and no exception either way.
send_telegram_message(message, channel) == channel = "up"

\* The messages of a call that the Notifier did not deliver.
Undelivered(messages, channel) ==
    SelectSeq(messages, LAMBDA m : ~send_telegram_message(m, channel))

\* What a method works on: the instance's lists and the traffic of one call.
Self ==
    [succ |-> successful_orders, fail |-> failed_orders, seq |-> orderSeq,
     calls |-> <<>>, sent |-> <<>>]

\* How a call ends: it returns a value, returns None, returns the triple
\* (None, None, None), or raises the named exception.
Returned(v) == [kind |-> "return", value |-> v]
ReturnedNone == [kind |-> "none", value |-> <<>>]
ReturnedNones == [kind |-> "nones", value |-> <<>>]
Raised(e) == [kind |-> "raise", value |-> <<e>>]

(***************************************************************************)
(* place_order                                                             *)
(***************************************************************************)
\* A variant that passes the price with every order type.
place_order_params_priced(symbol, side, size, price, order_type) ==
    [symbol |-> symbol, side |-> Upper(side), type |-> Upper(order_type),
     quantity |-> size,
     price |-> price,
     timeInForce |-> IF Upper(order_type) = "LIMIT" THEN "GTC" ELSE "absent",
     reduceOnly |-> FALSE]

place_order_params(symbol, side, size, price, order_type) ==
    [symbol |-> symbol, side |-> Upper(side), type |-> Upper(order_type),
     quantity |-> size,
     price |-> IF Upper(order_type) = "LIMIT" THEN price ELSE Absent,
     timeInForce |-> IF Upper(order_type) = "LIMIT" THEN "GTC" ELSE "absent",
     reduceOnly |-> FALSE]

\* A variant that puts the newest order first.
place_order_accepted_prepend(st, params) ==
    LET order == Confirmation(st.seq + 1, params)
    IN  [st EXCEPT !.seq = st.seq + 1,
                   !.calls = Append(st.calls, Call("create_order", params, Ok, <<order>>)),
                   !.succ = <<order>> \o st.succ,
                   !.sent = Append(st.sent, <<"Order placed successfully", params.symbol>>)]

\* try: create_order, append, notify.
place_order_accepted(st, params) ==
    LET order == Confirmation(st.seq + 1, params)
    IN  [st EXCEPT !.seq = st.seq + 1,
                   !.calls = Append(st.calls, Call("create_order", params, Ok, <<order>>)),
                   !.succ = Append(st.succ, order),
                   !.sent = Append(st.sent, <<"Order placed successfully", params.symbol>>)]

\* A variant that submits a rejected order a second time.
place_order_rejected_retry(st, params, symbol, side, size, price, e) ==
    [st EXCEPT !.calls = st.calls \o <<Call("create_order", params, e, <<>>),
                                       Call("create_order", params, e, <<>>)>>,
               !.fail = Append(st.fail, [symbol |-> symbol, side |-> side, size |-> size,
                                         price |-> price, error |-> e]),
               !.sent = Append(st.sent, <<"Failed to place order", symbol>>)]

\* except BinanceAPIException: append, notify.
place_order_rejected(st, params, symbol, side, size, price, e) ==
    [st EXCEPT !.calls = Append(st.calls, Call("create_order", params, e, <<>>)),
               !.fail = Append(st.fail, [symbol |-> symbol, side |-> side, size |-> size,
                                         price |-> price, error |-> e]),
               !.sent = Append(st.sent, <<"Failed to place order", symbol>>)]

\* A variant that places a LIMIT order whenever a price is given.
place_order_limit_if_priced(st, symbol, side, size, price, order_type, answer) ==
    LET params == place_order_params(symbol, side, size, price,
                                     IF Truthy(price) THEN "LIMIT" ELSE order_type)
    IN  IF answer = Ok
        THEN place_order_accepted(st, params)
        ELSE place_order_rejected(st, params, symbol, side, size, price, answer)

\* The instance after place_order(symbol, side, size, price, order_type) when
\* the gateway answers create_order with `answer`.
place_order(st, symbol, side, size, price, order_type, answer) ==
    LET params == place_order_params(symbol, side, size, price, order_type)
    IN  IF answer = Ok
        THEN place_order_accepted(st, params)
        ELSE place_order_rejected(st, params, symbol, side, size, price, answer)

(***************************************************************************)
(* iterate_orders_df                                                       *)
(***************************************************************************)
\* for _, row in orders.iterrows(): ... self.place_order(symbol, side, size, price)
RECURSIVE iterrows(_, _, _, _)
iterrows(st, orders, answers, i) ==
    IF i > Len(orders) THEN st
    ELSE LET row == orders[i]
             symbol == row.Symbol
             side == row.Side
             size == Float(row.Size)
             price == Float(row.Price)
         IN  iterrows(place_order(st, symbol, side, size, price, "MARKET", answers[i]),
                      orders, answers, i + 1)

\* A variant without the empty-table branch.
iterate_orders_df_always(st, orders, answers) ==
    LET after == iterrows(st, orders, answers, 1)
    IN  [self |-> after, result |-> Returned(<<after.succ, after.fail>>)]

\* iterate_orders_df(orders): the instance after it and what it returns. The
\* lists returned for a non-empty table are the instance's own.
iterate_orders_df(st, orders, answers) ==
    IF Len(orders) # 0
    THEN LET after == iterrows(st, orders, answers, 1)
         IN  [self |-> after, result |-> Returned(<<after.succ, after.fail>>)]
    ELSE [self |-> st, result |-> Returned(<<<<>>, <<>>>>)]

(***************************************************************************)
(* place_futures_order                                                     *)
(***************************************************************************)
\* for info in symbol_info['symbols']: if info['symbol'] == symbol.upper()
SymbolInfo(symbol) ==
    SelectSeq(ExchangeInfo, LAMBDA info : info.symbol = Upper(symbol))

place_futures_order_params(symbol, side, quantity, price, order_type) ==
    [symbol |-> Upper(symbol), side |-> Upper(side), type |-> Upper(order_type),
     quantity |-> quantity,
     price |-> IF Upper(order_type) = "LIMIT" THEN price ELSE Absent,
     timeInForce |-> IF Upper(order_type) = "LIMIT" THEN "GTC" ELSE "absent",
     reduceOnly |-> FALSE]

\* except BinanceAPIException: quantity and price are the locals as they
\* stand when the exception is raised.
place_futures_order_rejected(st, symbol, side, quantity, price, e) ==
    [self |-> [st EXCEPT !.fail = Append(st.fail, [symbol |-> symbol, side |-> side,
                                                   quantity |-> quantity, price |-> price,
                                                   error |-> e]),
                         !.sent = Append(st.sent, <<"Failed to place Futures order", symbol>>)],
     result |-> ReturnedNone]

\* futures_create_order(**params) and what follows it.
place_futures_order_submit(st, symbol, side, quantity, price, order_type, answer) ==
    LET params == place_futures_order_params(symbol, side, quantity, price, order_type)
        order == Confirmation(st.seq + 1, params)
    IN  IF answer = Ok
        THEN [self |-> [st EXCEPT !.seq = st.seq + 1,
                                  !.calls = Append(st.calls, Call("futures_create_order", params, Ok, <<order>>)),
                                  !.succ = Append(st.succ, order),
                                  !.sent = Append(st.sent, <<"Futures Order placed successfully", params.symbol>>)],
              result |-> Returned(order)]
        ELSE place_futures_order_rejected(
                 [st EXCEPT !.calls = Append(st.calls, Call("futures_create_order", params, answer, <<>>))],
                 symbol, side, quantity, price, answer)

\* Round quantity and price to allowed precision, then submit.
place_futures_order_round(st, symbol, side, quantity, price, order_type, info, answer) ==
    IF info.stepSize = Zero \/ (Truthy(price) /\ info.tickSize = Zero)
    THEN [self |-> st, result |-> Raised("ZeroDivisionError")]
    ELSE place_futures_order_submit(
             st, symbol, side, RoundToStep(quantity, info.stepSize),
             IF Truthy(price) THEN RoundToStep(price, info.tickSize) ELSE price,
             order_type, answer)

place_futures_order(st, symbol, side, quantity, price, order_type, quantity_type, infoAnswer, markAnswer, orderAnswer) ==
    LET st1 == [st EXCEPT !.calls = Append(st.calls, Call("futures_exchange_info", <<>>, infoAnswer, IF infoAnswer = Ok THEN <<ExchangeInfo>> ELSE <<>>))]
        st2 == [st1 EXCEPT !.calls = Append(st1.calls, Call("futures_mark_price", [symbol |-> symbol], markAnswer, IF markAnswer = Ok THEN <<MarkPrice(symbol)>> ELSE <<>>))]
    IN  IF infoAnswer # Ok
        THEN place_futures_order_rejected(st1, symbol, side, quantity, price, infoAnswer)
        ELSE IF SymbolInfo(symbol) = <<>>
        THEN [self |-> st1, result |-> Raised("ValueError")]
        ELSE IF Upper(quantity_type) = "USD"
        THEN IF markAnswer # Ok
             THEN place_futures_order_rejected(st2, symbol, side, quantity, price, markAnswer)
             ELSE place_futures_order_round(st2, symbol, side, RDiv(quantity, MarkPrice(symbol)),
                                            price, order_type, SymbolInfo(symbol)[1], orderAnswer)
        ELSE place_futures_order_round(st1, symbol, side, quantity, price, order_type,
                                       SymbolInfo(symbol)[1], orderAnswer)

(***************************************************************************)
(* change_leverage                                                         *)
(***************************************************************************)
\* What futures_change_leverage returns.
LeverageResponse(symbol, leverage) == [symbol |-> symbol, leverage |-> leverage]

\* change_leverage(symbol, leverage): the call of the gateway comes first,
\* whatever the leverage is.
change_leverage(st, symbol, leverage, answer) ==
    LET params == [symbol |-> symbol, leverage |-> leverage]
        response == LeverageResponse(symbol, leverage)
    IN  IF answer = Ok
        THEN [self |-> [st EXCEPT !.calls = Append(st.calls, Call("futures_change_leverage", params, Ok, <<response>>)),
                                  !.sent = Append(st.sent, <<"Leverage changed successfully for", symbol>>)],
              result |-> Returned(response)]
        ELSE [self |-> [st EXCEPT !.calls = Append(st.calls, Call("futures_change_leverage", params, answer, <<>>)),
                                  !.sent = Append(st.sent, <<"Failed to change leverage for", symbol>>)],
              result |-> ReturnedNone]

(***************************************************************************)
(* cancel_order, cancel_all_orders                                         *)
(***************************************************************************)
\* cancel_order(symbol, order_id): one call of the gateway, a message, and
\* no return value.
cancel_order(st, symbol, order_id, answer) ==
    LET params == [symbol |-> symbol, orderId |-> order_id]
        result == [symbol |-> symbol, orderId |-> order_id, status |-> "CANCELED"]
    IN  IF answer = Ok
        THEN [self |-> [st EXCEPT !.calls = Append(st.calls, Call("cancel_order", params, Ok, <<result>>)),
                                  !.sent = Append(st.sent, <<"Order canceled successfully", symbol>>)],
              result |-> ReturnedNone]
        ELSE [self |-> [st EXCEPT !.calls = Append(st.calls, Call("cancel_order", params, answer, <<>>)),
                                  !.sent = Append(st.sent, <<"Failed to cancel order", symbol>>)],
              result |-> ReturnedNone]

cancel_all_orders(st, symbol, answer) ==
    LET params == [symbol |-> symbol]
    IN  IF answer = Ok
        THEN [self |-> [st EXCEPT !.calls = Append(st.calls, Call("cancel_open_orders", params, Ok, <<<<>>>>)),
                                  !.sent = Append(st.sent, <<"All orders canceled successfully for", symbol>>)],
              result |-> ReturnedNone]
        ELSE [self |-> [st EXCEPT !.calls = Append(st.calls, Call("cancel_open_orders", params, answer, <<>>)),
                                  !.sent = Append(st.sent, <<"Failed to cancel all orders for", symbol>>)],
              result |-> ReturnedNone]

(***************************************************************************)
(* get_positions, get_account_summary, get_available_balance               *)
(***************************************************************************)
\* What get_account() returns: the spot balances.
Account ==
    [balances |-> <<[asset |-> "BTC", free |-> <<1, 2>>],
                    [asset |-> "ETH", free |-> <<0, 1>>],
                    [asset |-> "USDT", free |-> <<100, 1>>]>>]

\* What get_asset_balance(asset) returns: the balance, or None for an asset
\* the account does not hold.
AssetBalance(asset) ==
    LET held == SelectSeq(Account.balances, LAMBDA b : b.asset = asset)
    IN  IF held = <<>> THEN None ELSE held[1]

\* A variant that lets the exception of the gateway through.
get_positions_unguarded(st, answer) ==
    IF answer = Ok
    THEN [self |-> [st EXCEPT !.calls = Append(st.calls, Call("get_account", <<>>, Ok, <<Account>>))],
          result |-> Returned(SelectSeq(Account.balances, LAMBDA b : RLt(Zero, b.free)))]
    ELSE [self |-> [st EXCEPT !.calls = Append(st.calls, Call("get_account", <<>>, answer, <<>>))],
          result |-> Raised(answer)]

\* positions_df[positions_df['free'].astype(float) > 0]
get_positions(st, answer) ==
    IF answer = Ok
    THEN [self |-> [st EXCEPT !.calls = Append(st.calls, Call("get_account", <<>>, Ok, <<Account>>))],
          result |-> Returned(SelectSeq(Account.balances, LAMBDA b : RLt(Zero, b.free)))]
    ELSE [self |-> [st EXCEPT !.calls = Append(st.calls, Call("get_account", <<>>, answer, <<>>)),
                              !.sent = Append(st.sent, <<"Failed to fetch positions", "">>)],
          result |-> ReturnedNone]

get_account_summary(st, answer) ==
    IF answer = Ok
    THEN [self |-> [st EXCEPT !.calls = Append(st.calls, Call("get_account", <<>>, Ok, <<Account>>))],
          result |-> Returned(Account)]
    ELSE [self |-> [st EXCEPT !.calls = Append(st.calls, Call("get_account", <<>>, answer, <<>>)),
                              !.sent = Append(st.sent, <<"Failed to fetch account summary", "">>)],
          result |-> ReturnedNone]

get_available_balance(st, asset, answer) ==
    LET params == [asset |-> asset]
    IN  IF answer = Ok
        THEN [self |-> [st EXCEPT !.calls = Append(st.calls, Call("get_asset_balance", params, Ok, <<AssetBalance(asset)>>))],
              result |-> Returned(AssetBalance(asset))]
        ELSE [self |-> [st EXCEPT !.calls = Append(st.calls, Call("get_asset_balance", params, answer, <<>>)),
                                  !.sent = Append(st.sent, <<"Failed to fetch available balance for", asset>>)],
              result |-> ReturnedNone]

(***************************************************************************)
(* view_open_futures_positions                                             *)
(***************************************************************************)
\* for position in positions: a row for each open position, with its size in
\* contracts and in USD at the mark price; a BinanceAPIException of
\* futures_mark_price leaves the loop (acc.raised).
RECURSIVE view_loop(_, _, _, _)
view_loop(acc, book, j, markAnswers) ==
    IF j > Len(book) THEN acc
    ELSE IF book[j].positionAmt = Zero
    THEN view_loop(acc, book, j + 1, markAnswers)
    ELSE LET symbol == book[j].symbol
             fetched == [acc EXCEPT !.calls = Append(acc.calls,
                             Call("futures_mark_price", [symbol |-> symbol], markAnswers[j],
                                  IF markAnswers[j] = Ok THEN <<MarkPrice(symbol)>> ELSE <<>>))]
             row == [Symbol |-> symbol, SizeContracts |-> book[j].positionAmt,
                     SizeUSD |-> RAbs(RMul(book[j].positionAmt, MarkPrice(symbol)))]
         IN  IF markAnswers[j] # Ok
             THEN [fetched EXCEPT !.raised = <<markAnswers[j]>>]
             ELSE view_loop([fetched EXCEPT !.position_data = Append(acc.position_data, row)],
                            book, j + 1, markAnswers)

\* A variant that records the error among the failed orders.
view_open_futures_positions_recording(st, book, accountAnswer, markAnswers) ==
    LET start == [calls |-> Append(st.calls, Call("futures_account", <<>>, accountAnswer,
                                                  IF accountAnswer = Ok THEN <<book>> ELSE <<>>)),
                  raised |-> <<>>, position_data |-> <<>>]
        after == IF accountAnswer # Ok THEN start ELSE view_loop(start, book, 1, markAnswers)
    IN  IF accountAnswer # Ok \/ after.raised # <<>>
        THEN [self |-> [st EXCEPT !.calls = after.calls,
                                  !.fail = Append(st.fail, [symbol |-> "", error |-> "view"]),
                                  !.sent = Append(st.sent, <<"Failed to fetch open futures positions", "">>)],
              result |-> Returned(<<>>)]
        ELSE [self |-> [st EXCEPT !.calls = after.calls],
              result |-> Returned(after.position_data)]

\* view_open_futures_positions(): the table of the open positions, or an
\* empty one after a BinanceAPIException.
view_open_futures_positions(st, book, accountAnswer, markAnswers) ==
    LET start == [calls |-> Append(st.calls, Call("futures_account", <<>>, accountAnswer,
                                                  IF accountAnswer = Ok THEN <<book>> ELSE <<>>)),
                  raised |-> <<>>, position_data |-> <<>>]
        after == IF accountAnswer # Ok THEN start ELSE view_loop(start, book, 1, markAnswers)
    IN  IF accountAnswer # Ok \/ after.raised # <<>>
        THEN [self |-> [st EXCEPT !.calls = after.calls,
                                  !.sent = Append(st.sent, <<"Failed to fetch open futures positions", "">>)],
              result |-> Returned(<<>>)]
        ELSE [self |-> [st EXCEPT !.calls = after.calls],
              result |-> Returned(after.position_data)]

(***************************************************************************)
(* close_futures_positions                                                 *)
(***************************************************************************)
\* The notional under which the "small position" branch is taken.
MinNotional == 5

\* The text looked for in str(e).
NotionalTooSmall == <<"notional", "must", "be", "no", "smaller", "than", "5">>

\* A variant that orders on the side of the position.
close_side_same(position_amt) == IF RLt(Zero, position_amt) THEN "BUY" ELSE "SELL"

\* "SELL" if position_amt > 0 else "BUY"
close_side(position_amt) == IF RLt(Zero, position_amt) THEN "SELL" ELSE "BUY"

\* if percentage: ... elif quantity_type.upper() == 'USD' and quantity: ... else: ...
close_quantity(position_amt, mark_price, quantity, quantity_type, percentage) ==
    IF Truthy(percentage)
    THEN RMul(RAbs(position_amt), RDiv(percentage, <<100, 1>>))
    ELSE IF Upper(quantity_type) = "USD" /\ Truthy(quantity)
         THEN RDiv(quantity, mark_price)
         ELSE IF Truthy(quantity) THEN quantity ELSE RAbs(position_amt)

\* The keyword arguments of the close order, on the small-notional branch
\* and on the standard branch.
close_order_small(symbol, side, quantity) ==
    [symbol |-> symbol, side |-> side, type |-> "MARKET", quantity |-> quantity,
     price |-> Absent, timeInForce |-> "absent", reduceOnly |-> TRUE]

\* A variant of the standard branch without reduceOnly.
close_order_standard_plain(symbol, side, quantity) ==
    [symbol |-> symbol, side |-> side, type |-> "MARKET", quantity |-> quantity,
     price |-> Absent, timeInForce |-> "absent", reduceOnly |-> FALSE]

close_order_standard(symbol, side, quantity) ==
    [symbol |-> symbol, side |-> side, type |-> "MARKET", quantity |-> quantity,
     price |-> Absent, timeInForce |-> "absent", reduceOnly |-> TRUE]

close_order_params(symbol, side, quantity, notional_value) ==
    IF RLt(notional_value, <<MinNotional, 1>>)
    THEN close_order_small(symbol, side, quantity)
    ELSE close_order_standard(symbol, side, quantity)

\* The exchange fills an accepted MARKET order: a reduce-only order only
\* decreases the position it is against, any other order moves it by its
\* whole quantity.
ExchangeFill(book, params) ==
    [i \in 1..Len(book) |->
        IF book[i].symbol # params.symbol THEN book[i]
        ELSE LET amt == book[i].positionAmt
                 dir == IF params.side = "BUY" THEN 1 ELSE -1
                 qty == IF ~params.reduceOnly THEN params.quantity
                        ELSE IF dir = -RSign(amt) THEN RMin(params.quantity, RAbs(amt))
                             ELSE Zero
             IN  [book[i] EXCEPT !.positionAmt =
                     RSub(amt, RMul(<<-dir, 1>>, qty))]]

\* A variant that classifies by the notional instead of the error text.
close_rejected_by_notional(acc, symbol, notional_value, e) ==
    IF RLt(notional_value, <<MinNotional, 1>>)
    THEN [acc EXCEPT !.unclosable_positions =
                         Append(acc.unclosable_positions,
                                [symbol |-> symbol, notional |-> notional_value,
                                 error |-> "Notional value too small to close."]),
                     !.sent = Append(acc.sent, <<"Unclosable position for", symbol>>)]
    ELSE [acc EXCEPT !.failed_closes = Append(acc.failed_closes, [symbol |-> symbol, error |-> e]),
                     !.sent = Append(acc.sent, <<"Failed to close position for", symbol>>)]

\* A variant that records an Unclosable position among the failed closes too.
close_rejected_twice(acc, symbol, notional_value, e) ==
    IF Contains(e, NotionalTooSmall)
    THEN [acc EXCEPT !.unclosable_positions =
                         Append(acc.unclosable_positions,
                                [symbol |-> symbol, notional |-> notional_value,
                                 error |-> "Notional value too small to close."]),
                     !.failed_closes = Append(acc.failed_closes, [symbol |-> symbol, error |-> e]),
                     !.sent = Append(acc.sent, <<"Unclosable position for", symbol>>)]
    ELSE [acc EXCEPT !.failed_closes = Append(acc.failed_closes, [symbol |-> symbol, error |-> e]),
                     !.sent = Append(acc.sent, <<"Failed to close position for", symbol>>)]

\* except BinanceAPIException as e (the inner one): Unclosable or Failed.
close_rejected(acc, symbol, notional_value, e) ==
    IF Contains(e, NotionalTooSmall)
    THEN [acc EXCEPT !.unclosable_positions =
                         Append(acc.unclosable_positions,
                                [symbol |-> symbol, notional |-> notional_value,
                                 error |-> "Notional value too small to close."]),
                     !.sent = Append(acc.sent, <<"Unclosable position for", symbol>>)]
    ELSE [acc EXCEPT !.failed_closes = Append(acc.failed_closes, [symbol |-> symbol, error |-> e]),
                     !.sent = Append(acc.sent, <<"Failed to close position for", symbol>>)]

\* A variant where the order is recorded only if its message was delivered.
close_accepted_if_delivered(acc, params, notional_value) ==
    LET order == Confirmation(acc.seq + 1, params)
        message == <<IF RLt(notional_value, <<MinNotional, 1>>)
                     THEN "Closed small position for"
                     ELSE "Closed position for", params.symbol>>
    IN  [acc EXCEPT !.seq = acc.seq + 1,
                    !.calls = Append(acc.calls, Call("futures_create_order", params, Ok, <<order>>)),
                    !.book = ExchangeFill(acc.book, params),
                    !.sent = Append(acc.sent, message),
                    !.successful_closes =
                        IF send_telegram_message(message, telegram)
                        THEN Append(acc.successful_closes, order)
                        ELSE acc.successful_closes]

\* The inner try: futures_create_order, notify, append.
close_accepted(acc, params, notional_value) ==
    LET order == Confirmation(acc.seq + 1, params)
    IN  [acc EXCEPT !.seq = acc.seq + 1,
                    !.calls = Append(acc.calls, Call("futures_create_order", params, Ok, <<order>>)),
                    !.book = ExchangeFill(acc.book, params),
                    !.sent = Append(acc.sent,
                                    <<IF RLt(notional_value, <<MinNotional, 1>>)
                                      THEN "Closed small position for"
                                      ELSE "Closed position for", params.symbol>>),
                    !.successful_closes = Append(acc.successful_closes, order)]

\* One position of the loop whose mark price was fetched.
close_position(acc, position, quantity, quantity_type, percentage, orderAnswer) ==
    LET position_amt == position.positionAmt
        symbol == position.symbol
        mark_price == MarkPrice(symbol)
        notional_value == RAbs(RMul(position_amt, mark_price))
        side == close_side(position_amt)
        qty == close_quantity(position_amt, mark_price, quantity, quantity_type, percentage)
        params == close_order_params(symbol, side, qty, notional_value)
    IN  IF orderAnswer = Ok
        THEN close_accepted(acc, params, notional_value)
        ELSE close_rejected([acc EXCEPT !.calls = Append(acc.calls,
                                            Call("futures_create_order", params, orderAnswer, <<>>))],
                            symbol, notional_value, orderAnswer)

\* for position in positions: ...; a BinanceAPIException of futures_mark_price
\* leaves the loop (acc.raised).
RECURSIVE close_loop(_, _, _, _, _, _, _, _)
close_loop(acc, filtered, j, quantity, quantity_type, percentage, markAnswers, orderAnswers) ==
    IF j > Len(filtered) THEN acc
    ELSE IF filtered[j].positionAmt = Zero
    THEN close_loop(acc, filtered, j + 1, quantity, quantity_type, percentage,
                    markAnswers, orderAnswers)
    ELSE LET symbol == filtered[j].symbol
             fetched == [acc EXCEPT !.calls = Append(acc.calls,
                             Call("futures_mark_price", [symbol |-> symbol], markAnswers[j],
                                  IF markAnswers[j] = Ok THEN <<MarkPrice(symbol)>> ELSE <<>>))]
         IN  IF markAnswers[j] # Ok
             THEN [fetched EXCEPT !.raised = <<markAnswers[j]>>]
             ELSE close_loop(close_position(fetched, filtered[j], quantity, quantity_type,
                                            percentage, orderAnswers[j]),
                             filtered, j + 1, quantity, quantity_type, percentage,
                             markAnswers, orderAnswers)

\* positions = [pos for pos in positions if pos['symbol'] == symbol.upper()]
filter_positions(book, symbol) ==
    IF symbol # "" THEN SelectSeq(book, LAMBDA pos : pos.symbol = Upper(symbol)) ELSE book

\* close_futures_positions(symbol, quantity, quantity_type, percentage): the
\* instance and the exchange after it, and what it returns. symbol = "" stands
\* for None (both are falsy).
close_futures_positions(st, book, symbol, quantity, quantity_type, percentage, accountAnswer, markAnswers, orderAnswers) ==
    LET start == [seq |-> st.seq, sent |-> st.sent, book |-> book, raised |-> <<>>,
                  calls |-> Append(st.calls, Call("futures_account", <<>>, accountAnswer,
                                                  IF accountAnswer = Ok THEN <<book>> ELSE <<>>)),
                  successful_closes |-> <<>>, failed_closes |-> <<>>,
                  unclosable_positions |-> <<>>]
        looped == close_loop(start, filter_positions(book, symbol), 1, quantity,
                             quantity_type, percentage, markAnswers, orderAnswers)
        after == IF accountAnswer # Ok THEN start ELSE looped
    IN  IF accountAnswer # Ok \/ after.raised # <<>>
        THEN [acc |-> [after EXCEPT !.sent = Append(after.sent, <<"Failed to fetch positions", "">>)],
              result |-> ReturnedNones]
        ELSE [acc |-> IF after.unclosable_positions # <<>>
                      THEN [after EXCEPT !.sent = Append(after.sent, <<"Unclosable positions:", "">>)]
                      ELSE after,
              result |-> Returned(<<after.successful_closes, after.failed_closes,
                                    after.unclosable_positions>>)]

(***************************************************************************)
(* Inputs.                                                                 *)
(***************************************************************************)
\* The rows of the example table of the module's __main__.
OrderRows ==
    {[Symbol |-> "BTCUSDT", Side |-> "BUY", Size |-> <<"float", 1, 1000>>, Price |-> <<"int", 20000>>],
     [Symbol |-> "ETHUSDT", Side |-> "sell", Size |-> <<"float", 1, 100>>, Price |-> <<"int", 1500>>]}

OrderTypes == {"MARKET", "limit"}

\* Arguments of place_futures_order.
FuturesOrders ==
    {[symbol |-> "btcusdt", side |-> "buy", quantity |-> <<1, 80>>, price |-> None,
      order_type |-> "MARKET", quantity_type |-> "CONTRACTS"],
     [symbol |-> "ETHUSDT", side |-> "SELL", quantity |-> <<100, 1>>, price |-> <<2000057, 1000>>,
      order_type |-> "limit", quantity_type |-> "usd"],
     [symbol |-> "DOGEUSDT", side |-> "BUY", quantity |-> <<100, 1>>, price |-> None,
      order_type |-> "MARKET", quantity_type |-> "CONTRACTS"]}

\* Arguments of place_futures_order on instruments whose step is 1/2, 5, 1 or
\* zero; the quantities and prices are binary fractions, on which the floats
\* of the source compute exactly.
PrecisionOrders ==
    [symbol : {"XRPUSDT", "SHIBUSDT", "LUNAUSDT", "FTTUSDT"}, side : {"BUY"},
     quantity : {<<7, 4>>, <<17, 1>>, <<1, 80>>}, price : {None, <<5, 4>>},
     order_type : {"MARKET", "LIMIT"}, quantity_type : {"CONTRACTS", "usd"}]

\* Rows of an order table whose sizes and prices are off the instrument's grid.
PrecisionRows ==
    {[Symbol |-> "BTCUSDT", Side |-> "BUY", Size |-> <<"float", 1, 80>>, Price |-> <<"float", 400001, 20>>],
     [Symbol |-> "XRPUSDT", Side |-> "SELL", Size |-> <<"float", 7, 4>>, Price |-> <<"float", 9, 8>>]}

\* The leverage argument of change_leverage.
Leverages == {-1, 0, 10}

\* The answers of the gateway to a query.
QueryAnswers == {Ok, ErrTooManyRequests}

\* The asset argument of get_available_balance.
Assets == {"USDT", "DOGE"}

\* The account's open futures positions at construction.
PositionBooks ==
    {<<[symbol |-> "BTCUSDT", positionAmt |-> <<1, 2>>],
       [symbol |-> "ETHUSDT", positionAmt |-> <<0, 1>>],
       [symbol |-> "ADAUSDT", positionAmt |-> <<-10, 1>>]>>,
     <<[symbol |-> "ETHUSDT", positionAmt |-> <<1, 1000>>],
       [symbol |-> "ADAUSDT", positionAmt |-> <<-100, 1>>]>>}

\* Arguments of close_futures_positions: quantity, quantity_type, percentage.
Sizings ==
    [quantity : {None, Zero, <<100, 1>>}, quantity_type : {"CONTRACTS", "usd"},
     percentage : {None, <<50, 1>>}]

\* One argument triple for each sizing policy: all, quantity, notional, percentage.
SweepSizings ==
    {[quantity |-> None, quantity_type |-> "CONTRACTS", percentage |-> None],
     [quantity |-> <<100, 1>>, quantity_type |-> "CONTRACTS", percentage |-> None],
     [quantity |-> <<100, 1>>, quantity_type |-> "usd", percentage |-> None],
     [quantity |-> None, quantity_type |-> "CONTRACTS", percentage |-> <<50, 1>>]}

\* The same where every method may be called: all, and a quantity.
MixedSizings ==
    {[quantity |-> None, quantity_type |-> "CONTRACTS", percentage |-> None],
     [quantity |-> <<100, 1>>, quantity_type |-> "CONTRACTS", percentage |-> None]}

\* The symbol argument; "" stands for None.
CloseSymbols == {"", "adausdt", "BTCUSDT"}

\* The gateway's answers for one position of the loop: to futures_mark_price
\* and to futures_create_order.
CloseAnswers ==
    {<<Ok, Ok>>, <<Ok, ErrMinNotional>>, <<Ok, ErrMargin>>, <<ErrTooManyRequests, Ok>>}

(***************************************************************************)
(* Actions.                                                                *)
(***************************************************************************)
Init ==
    /\ successful_orders = <<>>
    /\ failed_orders = <<>>
    /\ positions \in PositionBooks
    /\ orderSeq = 0
    /\ op = [name |-> "__init__"]
    /\ calls = <<Call("futures_account", <<>>, Ok, <<>>)>>
    /\ sent = <<>>
    /\ ret = ReturnedNone
    /\ submitted = 0
    /\ telegram \in {"up", "down"}
    /\ lost = <<>>

\* The instance and the traffic of the call become the next state.
Finish(st, name, args, result, requests) ==
    /\ successful_orders' = st.succ
    /\ failed_orders' = st.fail
    /\ orderSeq' = st.seq
    /\ calls' = st.calls
    /\ sent' = st.sent
    /\ op' = [name |-> name, args |-> args]
    /\ ret' = result
    /\ submitted' = submitted + requests
    /\ lost' = Undelivered(st.sent, telegram)
    /\ UNCHANGED telegram

PlaceOrder(max, rows) ==
    /\ submitted < max
    /\ \E row \in rows, order_type \in OrderTypes, answer \in Answers :
         LET symbol == row.Symbol
             side == row.Side
             size == Float(row.Size)
             price == Float(row.Price)
         IN  Finish(place_order(Self, symbol, side, size, price, order_type, answer),
                    "place_order",
                    [symbol |-> symbol, side |-> side, size |-> size, price |-> price,
                     order_type |-> order_type],
                    ReturnedNone, 1)
    /\ UNCHANGED positions

IterateOrdersDf(max) ==
    /\ \E n \in 0..(max - submitted) :
         \E orders \in [1..n -> OrderRows], answers \in [1..n -> Answers] :
           LET done == iterate_orders_df(Self, orders, answers)
           IN  Finish(done.self, "iterate_orders_df", [orders |-> orders], done.result, n)
    /\ UNCHANGED positions

PlaceFuturesOrder(max, orders) ==
    /\ submitted < max
    /\ \E o \in orders, infoAnswer \in Answers, markAnswer \in Answers,
          orderAnswer \in Answers :
         LET done == place_futures_order(Self, o.symbol, o.side, o.quantity, o.price,
                                         o.order_type, o.quantity_type,
                                         infoAnswer, markAnswer, orderAnswer)
         IN  Finish(done.self, "place_futures_order", o, done.result, 1)
    /\ UNCHANGED positions

CreateOrders(log) ==
    SelectSeq(log, LAMBDA c : c.api \in {"create_order", "futures_create_order"})

\* One call of close_futures_positions under the given gateway answers.
CloseCall(max, symbol, sizing, accountAnswer, markAnswers, orderAnswers) ==
    LET done == close_futures_positions(
                    Self, positions, symbol, sizing.quantity, sizing.quantity_type,
                    sizing.percentage, accountAnswer, markAnswers, orderAnswers)
        requests == Len(CreateOrders(done.acc.calls))
    IN  /\ submitted + requests <= max
        /\ positions' = done.acc.book
        /\ orderSeq' = done.acc.seq
        /\ calls' = done.acc.calls
        /\ sent' = done.acc.sent
        /\ op' = [name |-> "close_futures_positions",
                  args |-> [symbol |-> symbol, quantity |-> sizing.quantity,
                            quantity_type |-> sizing.quantity_type,
                            percentage |-> sizing.percentage]]
        /\ ret' = done.result
        /\ submitted' = submitted + requests
        /\ lost' = Undelivered(done.acc.sent, telegram)
        /\ UNCHANGED <<successful_orders, failed_orders, telegram>>

\* The answers for the positions of a list: none is needed for a position
\* that is not open.
AnswersFor(filtered) ==
    {a \in [1..Len(filtered) -> CloseAnswers] :
        \A j \in 1..Len(filtered) : filtered[j].positionAmt = Zero => a[j] = <<Ok, Ok>>}

CloseFuturesPositions(max, sizings, symbols) ==
    /\ submitted < max
    /\ \E symbol \in symbols, sizing \in sizings :
      \/ \E answers \in AnswersFor(filter_positions(positions, symbol)) :
           CloseCall(max, symbol, sizing, Ok,
                     [j \in DOMAIN answers |-> answers[j][1]],
                     [j \in DOMAIN answers |-> answers[j][2]])
      \/ CloseCall(max, symbol, sizing, ErrTooManyRequests, <<>>, <<>>)

ChangeLeverage ==
    /\ \E symbol \in {"BTCUSDT"}, leverage \in Leverages, answer \in Answers :
         LET done == change_leverage(Self, symbol, leverage, answer)
         IN  Finish(done.self, "change_leverage", [symbol |-> symbol, leverage |-> leverage],
                    done.result, 0)
    /\ UNCHANGED positions

CancelOrder ==
    /\ \E symbol \in {"BTCUSDT"}, order_id \in {"1"}, answer \in QueryAnswers :
         LET done == cancel_order(Self, symbol, order_id, answer)
         IN  Finish(done.self, "cancel_order", [symbol |-> symbol, order_id |-> order_id],
                    done.result, 0)
    /\ UNCHANGED positions

CancelAllOrders ==
    /\ \E symbol \in {"BTCUSDT"}, answer \in QueryAnswers :
         LET done == cancel_all_orders(Self, symbol, answer)
         IN  Finish(done.self, "cancel_all_orders", [symbol |-> symbol], done.result, 0)
    /\ UNCHANGED positions

GetPositions ==
    /\ \E answer \in QueryAnswers :
         LET done == get_positions(Self, answer)
         IN  Finish(done.self, "get_positions", <<>>, done.result, 0)
    /\ UNCHANGED positions

GetAccountSummary ==
    /\ \E answer \in QueryAnswers :
         LET done == get_account_summary(Self, answer)
         IN  Finish(done.self, "get_account_summary", <<>>, done.result, 0)
    /\ UNCHANGED positions

GetAvailableBalance ==
    /\ \E asset \in Assets, answer \in QueryAnswers :
         LET done == get_available_balance(Self, asset, answer)
         IN  Finish(done.self, "get_available_balance", [asset |-> asset], done.result, 0)
    /\ UNCHANGED positions

\* The answers to the mark-price fetches of one call: an error ends the
\* call, so that at most one is asked for, at an open position.
ViewAnswers(book) ==
    {a \in [1..Len(book) -> QueryAnswers] :
        \A j \in 1..Len(book) :
            a[j] # Ok => /\ book[j].positionAmt # Zero
                         /\ \A i \in 1..(j - 1) : a[i] = Ok}

ViewOpenFuturesPositions ==
    /\ \E accountAnswer \in QueryAnswers, markAnswers \in ViewAnswers(positions) :
         LET done == view_open_futures_positions(Self, positions, accountAnswer, markAnswers)
         IN  Finish(done.self, "view_open_futures_positions", <<>>, done.result, 0)
    /\ UNCHANGED positions

\* The order router alone.
NextRouter(max) ==
    PlaceOrder(max, OrderRows) \/ IterateOrdersDf(max) \/ PlaceFuturesOrder(max, FuturesOrders)

SpecRouter == Init /\ [][NextRouter(MaxSubmit)]_vars

\* The position closer alone, over calls that follow one another.
NextCloser == CloseFuturesPositions(MaxSubmit, SweepSizings, {""})

SpecCloser == Init /\ [][NextCloser]_vars

\* The first call of the position closer, over all its arguments.
NextSizing ==
    /\ op.name = "__init__"
    /\ CloseFuturesPositions(MaxSubmit, Sizings, CloseSymbols)

SpecSizing == Init /\ [][NextSizing]_vars

\* The first order of an instance, over the precision of the instruments.
NextPrecision ==
    /\ op.name = "__init__"
    /\ (PlaceOrder(1, PrecisionRows) \/ PlaceFuturesOrder(1, PrecisionOrders))

SpecPrecision == Init /\ [][NextPrecision]_vars

\* The methods that submit orders, in any order.
NextOrders == NextRouter(MaxMixed) \/ CloseFuturesPositions(MaxMixed, MixedSizings, {""})

SpecOrders == Init /\ [][NextOrders]_vars

\* Every method, in any order.
Next ==
    \/ NextRouter(MaxAll)
    \/ CloseFuturesPositions(MaxAll, MixedSizings, {"adausdt"})
    \/ ChangeLeverage
    \/ CancelOrder
    \/ CancelAllOrders
    \/ GetPositions
    \/ GetAccountSummary
    \/ GetAvailableBalance
    \/ ViewOpenFuturesPositions

Spec == Init /\ [][Next]_vars

(***************************************************************************)
(* Properties of the order router.                                         *)
(***************************************************************************)
\* The order-creating calls of a call log that the gateway accepted, rejected.
Accepted(log) == SelectSeq(CreateOrders(log), LAMBDA c : c.answer = Ok)
Rejected(log) == SelectSeq(CreateOrders(log), LAMBDA c : c.answer # Ok)

\* The orders the gateway returned, in the order of the calls.
OrdersOf(log) == [k \in 1..Len(Accepted(log)) |-> Accepted(log)[k].result[1]]

\* The Failure of a table row rejected with error e.
RowFailure(row, e) ==
    [symbol |-> row.Symbol, side |-> row.Side, size |-> Float(row.Size),
     price |-> Float(row.Price), error |-> e]

\* The k-th gateway call is the submission of table row k.
SubmitsRow(c, row) ==
    /\ c.api = "create_order"
    /\ c.params.symbol = row.Symbol
    /\ c.params.side = Upper(row.Side)
    /\ c.params.quantity = Float(row.Size)

IsBatch == op.name = "iterate_orders_df"

\* C1: a table of N rows of which the gateway rejects exactly one, row i: all
\* N rows are submitted, and the call returns exactly one Failure, that of
\* row i, and the N-1 orders of the other rows as its successes.
C1_FailureIsolation ==
    (IsBatch /\ Len(Rejected(calls)) = 1) =>
        /\ Len(calls) = Len(op.args.orders)
        /\ \A k \in 1..Len(calls) : SubmitsRow(calls[k], op.args.orders[k])
        /\ ret.kind = "return"
        /\ ret.value[1] = OrdersOf(calls)
        /\ Len(ret.value[2]) = 1
        /\ \A k \in 1..Len(calls) :
              calls[k].answer # Ok =>
                  ret.value[2][1] = RowFailure(op.args.orders[k], calls[k].answer)

\* C2: whatever was called before, iterate_orders_df returns the outcomes of
\* the rows of this call and nothing else: its successes are the orders the
\* gateway accepted in this call, its failures those of the rows it rejected.
C2_PerCallScoped ==
    IsBatch =>
        LET rejected == SelectSeq([i \in 1..Len(calls) |-> i], LAMBDA i : calls[i].answer # Ok)
        IN  /\ ret.value[1] = OrdersOf(calls)
            /\ ret.value[2] =
                  [k \in 1..Len(rejected) |->
                      RowFailure(op.args.orders[rejected[k]], calls[rejected[k]].answer)]

\* C3: iterate_orders_df of an empty table returns ([], []), calls the
\* gateway for nothing and raises nothing, whatever was placed before.
C3_EmptyTable ==
    (IsBatch /\ Len(op.args.orders) = 0) =>
        /\ ret = Returned(<<<<>>, <<>>>>)
        /\ calls = <<>>
        /\ sent = <<>>

C3_Witness ==
    /\ IsBatch
    /\ Len(op.args.orders) = 0
    /\ successful_orders # <<>>
    /\ failed_orders # <<>>

\* C4: the rows are submitted in table order, and of two rows i < j that both
\* succeed (both fail) the outcome of row i stands before that of row j in the
\* returned successes (failures).
C4_InputOrder ==
    IsBatch =>
        LET orders == op.args.orders
            N == Len(orders)
        IN  /\ Len(calls) = N
            /\ \A k \in 1..N : SubmitsRow(calls[k], orders[k])
            /\ \A i, j \in 1..N :
                 (i < j /\ calls[i].answer = Ok /\ calls[j].answer = Ok) =>
                     \E p, q \in DOMAIN ret.value[1] :
                         /\ p < q
                         /\ ret.value[1][p] = calls[i].result[1]
                         /\ ret.value[1][q] = calls[j].result[1]
            /\ \A i, j \in 1..N :
                 (i < j /\ calls[i].answer # Ok /\ calls[j].answer # Ok) =>
                     \E p, q \in DOMAIN ret.value[2] :
                         /\ p < q
                         /\ ret.value[2][p] = RowFailure(orders[i], calls[i].answer)
                         /\ ret.value[2][q] = RowFailure(orders[j], calls[j].answer)

\* Two different rows accepted, after an earlier accepted order.
C4_Witness ==
    /\ IsBatch
    /\ Len(op.args.orders) = 2
    /\ op.args.orders[1] # op.args.orders[2]
    /\ Len(Accepted(calls)) = 2
    /\ Len(ret.value[1]) = 3

\* The calls of a log made for a given symbol.
CallsFor(log, symbol) == SelectSeq(log, LAMBDA c : c.params.symbol = symbol)

\* C5: no request is submitted twice: place_order and place_futures_order
\* create at most one order, iterate_orders_df at most one for each row, and
\* close_futures_positions at most one for each open position, whether the
\* gateway accepts or rejects.
C5_NoRetry ==
    /\ op.name \in {"place_order", "place_futures_order"} => Len(CreateOrders(calls)) <= 1
    /\ IsBatch =>
          /\ Len(CreateOrders(calls)) <= Len(op.args.orders)
          /\ \A k \in 1..Len(CreateOrders(calls)) :
                SubmitsRow(CreateOrders(calls)[k], op.args.orders[k])
    /\ (op.name = "close_futures_positions" /\ calls[1].answer = Ok) =>
          \A i \in 1..Len(calls[1].result[1]) :
              LET position == calls[1].result[1][i]
              IN  Len(CallsFor(CreateOrders(calls), position.symbol))
                      <= IF position.positionAmt = Zero THEN 0 ELSE 1

\* A rejected spot order, seen once by the gateway.
C5_Witness ==
    /\ op.name = "place_order"
    /\ Len(Rejected(calls)) = 1
    /\ Len(calls) = 1

(***************************************************************************)
(* Properties of the position closer.                                      *)
(***************************************************************************)
\* The last call is close_futures_positions and it got the account.
IsClose == op.name = "close_futures_positions" /\ calls[1].answer = Ok

\* The positions the call fetched, and those it selected.
Fetched == calls[1].result[1]
Selected == filter_positions(Fetched, op.args.symbol)

\* The position amount the call fetched for a symbol.
AmountOf(symbol) ==
    LET i == CHOOSE i \in 1..Len(Fetched) : Fetched[i].symbol = symbol
    IN  Fetched[i].positionAmt

NotionalOf(symbol) == RAbs(RMul(AmountOf(symbol), MarkPrice(symbol)))

SymbolsOf(outcomes) == {outcomes[k].symbol : k \in 1..Len(outcomes)}

Range(seq) == {seq[k] : k \in 1..Len(seq)}

\* C6: an error of the gateway at one position, be it at the mark price or at
\* the close order, does not end the sweep: every selected open position is
\* attempted, and the outcomes collected are returned.
C6_BestEffortSweep ==
    IsClose =>
        /\ \A i \in 1..Len(Selected) :
              Selected[i].positionAmt # Zero =>
                  \E c \in Range(Tail(calls)) : c.params.symbol = Selected[i].symbol
        /\ ret.kind = "return"
        /\ ret.value[1] = OrdersOf(calls)

C8_OppositeSide ==
    IsClose =>
        \A c \in Range(CreateOrders(calls)) :
            LET amt == AmountOf(c.params.symbol)
            IN  /\ amt # Zero
                /\ RLt(Zero, amt) => c.params.side = "SELL"
                /\ RLt(amt, Zero) => c.params.side = "BUY"

C8_Witness ==
    /\ IsClose
    /\ \E c \in Range(CreateOrders(calls)) : c.params.side = "SELL"
    /\ \E c \in Range(CreateOrders(calls)) : c.params.side = "BUY"

\* C9: every order of close_futures_positions is reduce-only, on the small
\* branch and on the standard one, and with an exchange that honours
\* reduce-only no call makes a position larger or turns its sign, also when
\* the close quantity is above the size of the position.
C9_ReduceOnly ==
    IsClose =>
        /\ \A c \in Range(CreateOrders(calls)) : c.params.reduceOnly
        /\ \A i \in 1..Len(Fetched) :
              LET before == Fetched[i].positionAmt
                  after == positions[i].positionAmt
              IN  /\ positions[i].symbol = Fetched[i].symbol
                  /\ RLe(RAbs(after), RAbs(before))
                  /\ after = Zero \/ RSign(after) = RSign(before)

\* An accepted close order above the size of a position of notional >= 5.
C9_Witness ==
    /\ IsClose
    /\ \E c \in Range(Accepted(calls)) :
          /\ RLt(RAbs(AmountOf(c.params.symbol)), c.params.quantity)
          /\ ~RLt(NotionalOf(c.params.symbol), <<5, 1>>)
          /\ \E i \in 1..Len(positions) :
                positions[i].symbol = c.params.symbol /\ positions[i].positionAmt = Zero

\* C10: the close quantity follows the sizing with the precedence percentage,
\* notional, quantity, whole position: a percentage p gives |amount| * p / 100,
\* else a notional u gives u / markPrice, else a quantity q gives q, and with
\* nothing given the quantity is |amount|.
C10_SizingPrecedence ==
    IsClose =>
        \A c \in Range(CreateOrders(calls)) :
            LET amt == AmountOf(c.params.symbol)
                a == op.args
            IN  c.params.quantity =
                    IF a.percentage # None
                    THEN RDiv(RMul(RAbs(amt), a.percentage), <<100, 1>>)
                    ELSE IF Upper(a.quantity_type) = "USD" /\ a.quantity # None
                         THEN RDiv(a.quantity, MarkPrice(c.params.symbol))
                         ELSE IF a.quantity # None THEN a.quantity ELSE RAbs(amt)

(***************************************************************************)
(* Properties of the precision of orders.                                  *)
(***************************************************************************)
\* x is a whole multiple of the step s.
IsMultiple(x, s) == s # Zero /\ RDiv(x, s)[2] = 1

IsFutures == op.name = "place_futures_order"

\* The quantity in contracts that place_futures_order was asked for.
RawQuantity ==
    IF Upper(op.args.quantity_type) = "USD"
    THEN RDiv(op.args.quantity, MarkPrice(op.args.symbol))
    ELSE op.args.quantity

\* The filters of the instrument of the last place_futures_order.
Filters == SymbolInfo(op.args.symbol)[1]

\* C11: rounding never overshoots: the quantity place_futures_order submits
\* is at most the raw quantity q and a whole multiple of the step size s, for
\* every s > 0, powers of ten or not; the same for the price of a LIMIT order
\* against the tick size.
C11_NeverOvershoots ==
    IsFutures =>
        \A c \in Range(CreateOrders(calls)) :
            /\ RLe(c.params.quantity, RawQuantity)
            /\ IsMultiple(c.params.quantity, Filters.stepSize)
            /\ (c.params.type = "LIMIT" /\ Truthy(op.args.price)) =>
                  /\ RLe(c.params.price, op.args.price)
                  /\ IsMultiple(c.params.price, Filters.tickSize)

\* The last place_futures_order found its instrument, whose step size or
\* tick size is zero.
ZeroFilter ==
    /\ IsFutures
    /\ calls[1].answer = Ok
    /\ SymbolInfo(op.args.symbol) # <<>>
    /\ (Filters.stepSize = Zero \/ Filters.tickSize = Zero)

\* C15: on an instrument whose step size or tick size is zero,
\* place_futures_order fails with InvalidInstrumentFilter and not with a
\* division by zero, submits no order and records no outcome (the lists of
\* the new instance stay empty).
C15_ZeroFilter ==
    ZeroFilter =>
        /\ ret.kind = "raise"
        /\ ret.value = <<"InvalidInstrumentFilter">>
        /\ CreateOrders(calls) = <<>>
        /\ successful_orders = <<>>
        /\ failed_orders = <<>>

(***************************************************************************)
(* Properties of the messages and the selection of the position closer.    *)
(***************************************************************************)
\* The messages of the last call that tell of Unclosable positions.
UnclosableMessages ==
    SelectSeq(sent, LAMBDA m : m[1] \in {"Unclosable position for", "Unclosable positions:"})

\* C16: one call of close_futures_positions tells the Notifier of its
\* Unclosable positions once, in one summary after the loop: no message is
\* sent for a single Unclosable position, the summary is the last message
\* when the call returns Unclosable positions, and there is none otherwise.
C16_UnclosableSummaryOnce ==
    IsClose =>
        /\ \A m \in Range(sent) : m[1] # "Unclosable position for"
        /\ ret.kind = "return" =>
              IF ret.value[3] # <<>>
              THEN /\ UnclosableMessages = <<<<"Unclosable positions:", "">>>>
                   /\ sent[Len(sent)] = <<"Unclosable positions:", "">>
              ELSE UnclosableMessages = <<>>

\* The calls of the last close_futures_positions made for one position.
PositionCalls ==
    SelectSeq(calls, LAMBDA c : c.api \in {"futures_mark_price", "futures_create_order"})

\* No mark price is fetched and no order submitted for a position of amount
\* zero, and with a symbol given every call is for that symbol.
OnlySelectedOpen ==
        /\ \A c \in Range(PositionCalls) : AmountOf(c.params.symbol) # Zero
        /\ op.args.symbol # "" =>
              \A c \in Range(PositionCalls) : c.params.symbol = Upper(op.args.symbol)

\* C17: close_futures_positions fetches no mark price and submits no order
\* for a position of amount zero, with a symbol given it submits orders for
\* that symbol only, and with no symbol given a close order is submitted for
\* every position of non-zero amount.
C17_SelectedOpenPositions ==
    IsClose =>
        /\ OnlySelectedOpen
        /\ op.args.symbol = "" =>
              \A i \in 1..Len(Fetched) :
                  Fetched[i].positionAmt # Zero =>
                      Len(CallsFor(CreateOrders(calls), Fetched[i].symbol)) = 1

\* The call got no mark price for some position.
MarkPriceFailed ==
    \E c \in Range(calls) : c.api = "futures_mark_price" /\ c.answer # Ok

\* The symbols of the selected positions that are open.
SelectedOpen ==
    {Selected[i].symbol : i \in {k \in 1..Len(Selected) : Selected[k].positionAmt # Zero}}

\* The number of outcomes a sequence holds for a symbol.
OutcomesFor(outcomes, symbol) ==
    Len(SelectSeq(outcomes, LAMBDA o : o.symbol = symbol))

IsPlace == op.name \in {"place_order", "place_futures_order"}

\* C18: every order that place_order or place_futures_order submits has a
\* quantity that is a whole multiple of the step size of its instrument, and
\* a LIMIT order a price that is a whole multiple of the tick size.
C18_ResolvedPrecision ==
    IsPlace =>
        \A c \in Range(CreateOrders(calls)) :
            LET info == SymbolInfo(c.params.symbol)[1]
            IN  /\ IsMultiple(c.params.quantity, info.stepSize)
                /\ (c.params.type = "LIMIT" /\ c.params.price # None) =>
                      IsMultiple(c.params.price, info.tickSize)

\* The price place_order or place_futures_order passes on for the price it
\* was given: as it is on the spot path, rounded to the tick on the futures
\* path when there is one to round.
PricePassed ==
    IF IsFutures /\ Truthy(op.args.price)
    THEN RoundToStep(op.args.price, Filters.tickSize)
    ELSE op.args.price

C12_InvalidLeverage ==
    (op.name = "change_leverage" /\ op.args.leverage <= 0) =>
        /\ calls = <<>>
        /\ ret.kind = "raise"
        /\ ret.value = <<"InvalidLeverage">>

(***************************************************************************)
(* Properties of the notifications and of the errors of the gateway.       *)
(***************************************************************************)
\* The last n elements of a sequence.
LastN(seq, n) == SubSeq(seq, Len(seq) - n + 1, Len(seq))

\* The Failures of the rows the gateway rejected, in the order of the calls.
RowFailures ==
    LET rejected == SelectSeq([i \in 1..Len(calls) |-> i], LAMBDA i : calls[i].answer # Ok)
    IN  [k \in 1..Len(rejected) |->
            RowFailure(op.args.orders[rejected[k]], calls[rejected[k]].answer)]

C14_ApiErrorCaptured ==
    (\E c \in Range(calls) : c.answer # Ok) =>
        /\ ret.kind # "raise"
        /\ sent # <<>>

\* A query the gateway answers with an error, after an order was rejected.
C14_Witness ==
    /\ op.name = "get_positions"
    /\ calls[1].answer # Ok
    /\ failed_orders # <<>>

\* C22: every order that iterate_orders_df submits is a spot MARKET order:
\* the Price of a row is read but goes to the gateway with none of the
\* orders, and it is recorded in the Failure of a rejected row.
C22_BatchIsMarket ==
    IsBatch =>
        /\ \A k \in 1..Len(calls) :
              /\ calls[k].api = "create_order"
              /\ calls[k].params.type = "MARKET"
              /\ calls[k].params.price = Absent
              /\ calls[k].params.timeInForce = "absent"
        /\ ret.kind = "return" /\ Len(op.args.orders) # 0 =>
              LastN(ret.value[2], Len(Rejected(calls))) = RowFailures

\* A table with a row accepted and a row rejected, each with a price.
C22_Witness ==
    /\ IsBatch
    /\ Len(Accepted(calls)) >= 1
    /\ Len(Rejected(calls)) >= 1
    /\ \A k \in 1..Len(op.args.orders) : Truthy(Float(op.args.orders[k].Price))

(***************************************************************************)
(* Properties of the queries.                                              *)
(***************************************************************************)
\* The methods that only read.
IsQuery(name) ==
    name \in {"get_positions", "get_account_summary", "get_available_balance",
              "view_open_futures_positions"}

\* The operations of the gateway that read.
ReadingApis == {"get_account", "get_asset_balance", "futures_account", "futures_mark_price"}

\* C20: get_positions, get_account_summary, get_available_balance and
\* view_open_futures_positions change nothing: the successful and the failed
\* orders of the instance and the positions at the exchange are after the
\* call what they were before it, and the call uses only reading operations
\* of the gateway, whether the gateway answers or reports an error.
C20_QueriesReadOnly ==
    [][IsQuery(op'.name) =>
          /\ successful_orders' = successful_orders
          /\ failed_orders' = failed_orders
          /\ positions' = positions
          /\ orderSeq' = orderSeq
          /\ \A c \in Range(calls') : c.api \in ReadingApis]_vars

\* A query that the gateway answers with an error, on an instance that has
\* recorded an order.
C20_Witness ==
    /\ op.name = "view_open_futures_positions"
    /\ \E c \in Range(calls) : c.answer # Ok
    /\ successful_orders # <<>>

====
